---- MODULE Spec2Model ----
(***************************************************************************)
(* Constant-time GCD and modular inverse (SICT-GCD / SICT-MI, Algorithm 8  *)
(* of [Jin23]) as implemented in courses/modular/ct-pres.py, gcd.py and    *)
(* maths/modinv.py.                                                        *)
(*                                                                         *)
(* One behaviour is one call of one function on one pair of arguments.     *)
(* Python integers are unbounded and signed: x >> 1 is floor division by   *)
(* 2 (\div), x & 1 is x % 2, and a failing assert ends the call with the   *)
(* outcome "error" (AssertionError) instead of a value.                    *)
(***************************************************************************)
EXTENDS Integers, Sequences, FiniteSets, TLC

\* Arguments are drawn from -MaxNeg .. MaxArg.
MaxArg == 18
MaxNeg == 1

ArgRange == (0 - MaxNeg)..MaxArg

GcdFuncs == {"sict_gcd", "sict_gcd_readable", "sict_gcd2"}
MiFuncs == {"sict_mi", "maths_sict_mi"}
\* The extended GCD functions of egcd.py and the plain ones of gcd.py.
EgcdFuncs == {"euclid_intuitive", "euclid_direct", "binary"}
PlainGcdFuncs == {"euclid_gcd", "binary_gcd"}
\* The fixed-iteration binary GCDs of ct-pres.py.
BinGcdFuncs == {"bin_gcd_fix13", "bin_gcd_fix123"}

\* The pair of the worked example of gcd.py.
ExampleA == 66528
ExampleB == 52920

\* The modular helpers, called on their own.
Div2Funcs == {"div2_mod", "maths_div2_mod"}
Div2lFuncs == {"div2l_mod", "maths_div2l_mod"}
Funcs == GcdFuncs \cup MiFuncs \cup {"sict_mi_2mod4", "sict_mi_a_odd", "sict_mi2"}
         \cup {"si_gcd"} \cup BinGcdFuncs
         \cup Div2Funcs \cup Div2lFuncs \cup EgcdFuncs \cup PlainGcdFuncs

VARIABLES
    func,       \* the function under call
    args,       \* its two positional arguments, as passed
    pc,         \* position in the code
    a, p,       \* parameters of the running SICT function
    u, v, q, r, \* its scratch state
    i,          \* iterations of its for loop completed so far
    u_is_odd, v_is_odd, d, t1, t2,  \* loop locals of sict_gcd_readable
    ops,        \* primitive operations executed by sict_gcd_readable
    ret,        \* value returned by an inner call of sict_mi
    outcome,    \* "none" while running, then "value" or "error"
    result      \* the returned value when outcome = "value"

vars == <<func, args, pc, a, p, u, v, q, r, i, u_is_odd, v_is_odd, d, t1, t2,
          ops, ret, outcome, result>>

gcdLocals == <<u_is_odd, v_is_odd, d, t1, t2>>

NoOps == [sub |-> 0, shift |-> 0, cmp |-> 0, select |-> 0, swap |-> 0]

----------------------------------------------------------------------------
\* Pure helpers.

\* int.bit_length(): number of bits of |x|.
RECURSIVE bit_length(_)
bit_length(x) ==
    IF x = 0 THEN 0
    ELSE IF x < 0 THEN bit_length(0 - x)
    ELSE 1 + bit_length(x \div 2)

\* math.gcd, the reference: the largest common divisor, gcd(0, 0) = 0.
math_gcd(x, y) ==
    LET ax == IF x < 0 THEN 0 - x ELSE x
        ay == IF y < 0 THEN 0 - y ELSE y
        m  == IF ax > ay THEN ax ELSE ay
        common(e) == ax % e = 0 /\ ay % e = 0
    IN IF m = 0 THEN 0
       ELSE CHOOSE g \in 1..m : common(g) /\ \A e \in 1..m : common(e) => e <= g

\* The two results exchanged.
select_swapped(x, y, cond) == IF cond THEN x ELSE y

select(x, y, cond) == IF cond THEN y ELSE x

cond_swap(x, y, cond) == IF cond THEN <<y, x>> ELSE <<x, y>>

\* A plain halving, n never added.
div2_mod_floor(x, n) ==
    LET even_x == select(x, x, x % 2 # 0)
    IN even_x \div 2

div2_mod(x, n) ==
    LET even_x == select(x, x + n, x % 2 # 0)
    IN even_x \div 2

\* The difference taken as is, n never added.
sub_mod_no_wrap(x, y, n) ==
    LET larger_x == select(x, x, x < y)
    IN larger_x - y

sub_mod(x, y, n) ==
    LET larger_x == select(x, x + n, x < y)
    IN larger_x - y

RECURSIVE div2l_iter(_, _, _)
div2l_iter(x, n, k) == IF k = 0 THEN x ELSE div2l_iter(div2_mod(x, n), n, k - 1)

\* Only bitlen(n) halvings.
div2l_mod_short(x, n) == div2l_iter(x, n, bit_length(n))

div2l_mod(x, n) == div2l_iter(x, n, 2 * bit_length(n))

\* maths/modinv.py has its own branching versions of the helpers.

\* n added whatever the parity of x.
maths_div2_mod_always(x, n) == IF x % 2 = 0 THEN (x + n) \div 2 ELSE (x + n) \div 2

maths_div2_mod(x, n) == IF x % 2 = 0 THEN x \div 2 ELSE (x + n) \div 2

maths_sub_mod(x, y, n) == IF x < y THEN x + n - y ELSE x - y

add_mod(x, y, n) ==
    LET z == x + y
    IN IF z > n THEN z - n ELSE z

RECURSIVE maths_div2l_iter(_, _, _)
maths_div2l_iter(x, n, k) ==
    IF k = 0 THEN x ELSE maths_div2l_iter(maths_div2_mod(x, n), n, k - 1)

maths_div2l_mod(x, n) == maths_div2l_iter(x, n, 2 * bit_length(n))

----------------------------------------------------------------------------
Init ==
    /\ \/ func \in Funcs /\ args \in ArgRange \X ArgRange
       \/ func = "add_mod" /\ args \in ArgRange \X ArgRange \X ArgRange
       \/ func \in PlainGcdFuncs /\ args = <<ExampleA, ExampleB>>
    /\ pc = "main"
    /\ a = 0 /\ p = 0
    /\ u = 0 /\ v = 0 /\ q = 0 /\ r = 0
    /\ i = 0
    /\ u_is_odd = FALSE /\ v_is_odd = FALSE
    /\ d = 0 /\ t1 = 0 /\ t2 = 0
    /\ ops = NoOps
    /\ ret = 0
    /\ outcome = "none"
    /\ result = 0

\* An assert failed: the call ends with AssertionError.
Raise ==
    /\ pc' = "done"
    /\ outcome' = "error"
    /\ result' = 0

\* The outermost function returns x.
Return(x) ==
    /\ pc' = "done"
    /\ outcome' = "value"
    /\ result' = x

----------------------------------------------------------------------------
\* The harness calls a GCD function: got = func(a, b), bound to (p, a).
call_gcd ==
    /\ pc = "main"
    /\ func \in GcdFuncs
    /\ p' = args[1]
    /\ a' = args[2]
    /\ pc' = IF func = "sict_gcd_readable" THEN "L204" ELSE "gcd_assert"
    /\ UNCHANGED <<func, args, u, v, q, r, i, gcdLocals, ops, ret, outcome, result>>

----------------------------------------------------------------------------
\* sict_gcd_readable(p, a), one action per statement.

\* Only the order of the arguments checked, not their parity.
gcdr_assert_any_parity ==
    /\ pc = "L204"
    /\ IF p >= a /\ a >= 0
       THEN pc' = "L207" /\ UNCHANGED <<outcome, result>>
       ELSE Raise
    /\ UNCHANGED <<func, args, a, p, u, v, q, r, i, gcdLocals, ops, ret>>

\* assert p >= a >= 0; assert p & 1 != 0 or a & 1 != 0
gcdr_assert ==
    /\ pc = "L204"
    /\ IF p >= a /\ a >= 0 /\ (p % 2 # 0 \/ a % 2 # 0)
       THEN pc' = "L207" /\ UNCHANGED <<outcome, result>>
       ELSE Raise
    /\ UNCHANGED <<func, args, a, p, u, v, q, r, i, gcdLocals, ops, ret>>

gcdr_init ==
    /\ pc = "L207"
    /\ u' = a
    /\ v' = p
    /\ i' = 0
    /\ pc' = "L208"
    /\ UNCHANGED <<func, args, a, p, q, r, gcdLocals, ops, ret, outcome, result>>

\* A budget of bitlen(p) rounds only.
gcdr_in_range_half == i < bit_length(p)

\* for _ in range(2 * p.bit_length())
gcdr_in_range == i < 2 * bit_length(p)

gcdr_for ==
    /\ pc = "L208"
    /\ pc' = IF gcdr_in_range THEN "L210" ELSE "L226"
    /\ UNCHANGED <<func, args, a, p, u, v, q, r, i, gcdLocals, ops, ret, outcome, result>>

gcdr_parity ==
    /\ pc = "L210"
    /\ u_is_odd' = (u % 2 # 0)
    /\ v_is_odd' = (v % 2 # 0)
    /\ pc' = "L212"
    /\ UNCHANGED <<func, args, a, p, u, v, q, r, i, d, t1, t2, ops, ret, outcome, result>>

\* The operands of the subtraction exchanged.
gcdr_sub_reversed ==
    /\ pc = "L212"
    /\ d' = u - v
    /\ ops' = [ops EXCEPT !.sub = @ + 1]
    /\ pc' = "L215"
    /\ UNCHANGED <<func, args, a, p, u, v, q, r, i, u_is_odd, v_is_odd, t1, t2, ret,
                   outcome, result>>

gcdr_sub ==
    /\ pc = "L212"
    /\ d' = v - u
    /\ ops' = [ops EXCEPT !.sub = @ + 1]
    /\ pc' = "L215"
    /\ UNCHANGED <<func, args, a, p, u, v, q, r, i, u_is_odd, v_is_odd, t1, t2, ret,
                   outcome, result>>

gcdr_t1 ==
    /\ pc = "L215"
    /\ t1' = d
    /\ pc' = "L216"
    /\ UNCHANGED <<func, args, a, p, u, v, q, r, i, u_is_odd, v_is_odd, d, t2, ops, ret,
                   outcome, result>>

gcdr_t1_select ==
    /\ pc = "L216"
    /\ t1' = select(t1, u, u_is_odd /\ v_is_odd)
    /\ ops' = [ops EXCEPT !.select = @ + 1]
    /\ pc' = "L219"
    /\ UNCHANGED <<func, args, a, p, u, v, q, r, i, u_is_odd, v_is_odd, d, t2, ret,
                   outcome, result>>

gcdr_t2 ==
    /\ pc = "L219"
    /\ t2' = u
    /\ pc' = "L220"
    /\ UNCHANGED <<func, args, a, p, u, v, q, r, i, u_is_odd, v_is_odd, d, t1, ops, ret,
                   outcome, result>>

\* A branching variant: when both are odd the third select is skipped.
gcdr_t2_select_d_branch ==
    /\ pc = "L220"
    /\ t2' = select(t2, d, u_is_odd /\ v_is_odd)
    /\ ops' = [ops EXCEPT !.select = @ + 1]
    /\ pc' = IF u_is_odd /\ v_is_odd THEN "L222" ELSE "L221"
    /\ UNCHANGED <<func, args, a, p, u, v, q, r, i, u_is_odd, v_is_odd, d, t1, ret,
                   outcome, result>>

gcdr_t2_select_d ==
    /\ pc = "L220"
    /\ t2' = select(t2, d, u_is_odd /\ v_is_odd)
    /\ ops' = [ops EXCEPT !.select = @ + 1]
    /\ pc' = "L221"
    /\ UNCHANGED <<func, args, a, p, u, v, q, r, i, u_is_odd, v_is_odd, d, t1, ret,
                   outcome, result>>

\* v selected whenever u is odd, whatever v is.
gcdr_t2_select_v_loose ==
    /\ pc = "L221"
    /\ t2' = select(t2, v, u_is_odd)
    /\ ops' = [ops EXCEPT !.select = @ + 1]
    /\ pc' = "L222"
    /\ UNCHANGED <<func, args, a, p, u, v, q, r, i, u_is_odd, v_is_odd, d, t1, ret,
                   outcome, result>>

gcdr_t2_select_v ==
    /\ pc = "L221"
    /\ t2' = select(t2, v, u_is_odd /\ ~v_is_odd)
    /\ ops' = [ops EXCEPT !.select = @ + 1]
    /\ pc' = "L222"
    /\ UNCHANGED <<func, args, a, p, u, v, q, r, i, u_is_odd, v_is_odd, d, t1, ret,
                   outcome, result>>

gcdr_shift ==
    /\ pc = "L222"
    /\ t2' = t2 \div 2
    /\ ops' = [ops EXCEPT !.shift = @ + 1]
    /\ pc' = "L224"
    /\ UNCHANGED <<func, args, a, p, u, v, q, r, i, u_is_odd, v_is_odd, d, t1, ret,
                   outcome, result>>

\* The comparison the wrong way round.
gcdr_swap_inverted ==
    /\ pc = "L224"
    /\ LET uv == cond_swap(t1, t2, t1 < t2)
       IN u' = uv[1] /\ v' = uv[2]
    /\ ops' = [ops EXCEPT !.cmp = @ + 1, !.swap = @ + 1]
    /\ i' = i + 1
    /\ pc' = "L208"
    /\ UNCHANGED <<func, args, a, p, q, r, gcdLocals, ret, outcome, result>>

\* The pair taken as computed, never exchanged.
gcdr_swap_never ==
    /\ pc = "L224"
    /\ LET uv == cond_swap(t1, t2, FALSE)
       IN u' = uv[1] /\ v' = uv[2]
    /\ ops' = [ops EXCEPT !.cmp = @ + 1, !.swap = @ + 1]
    /\ i' = i + 1
    /\ pc' = "L208"
    /\ UNCHANGED <<func, args, a, p, q, r, gcdLocals, ret, outcome, result>>

\* u, v = cond_swap(t1, t2, t2 < t1), and the loop moves to the next round.
gcdr_swap ==
    /\ pc = "L224"
    /\ LET uv == cond_swap(t1, t2, t2 < t1)
       IN u' = uv[1] /\ v' = uv[2]
    /\ ops' = [ops EXCEPT !.cmp = @ + 1, !.swap = @ + 1]
    /\ i' = i + 1
    /\ pc' = "L208"
    /\ UNCHANGED <<func, args, a, p, q, r, gcdLocals, ret, outcome, result>>

gcdr_return ==
    /\ pc = "L226"
    /\ Return(v)
    /\ UNCHANGED <<func, args, a, p, u, v, q, r, i, gcdLocals, ops, ret>>

sict_gcd_readable ==
    \/ gcdr_assert \/ gcdr_init \/ gcdr_for \/ gcdr_parity \/ gcdr_sub
    \/ gcdr_t1 \/ gcdr_t1_select \/ gcdr_t2 \/ gcdr_t2_select_d
    \/ gcdr_t2_select_v \/ gcdr_shift \/ gcdr_swap \/ gcdr_return

\* One round of sict_gcd_readable as a function of (u, v) = (x, y).
sict_gcd_readable_body(x, y) ==
    LET x_is_odd == x % 2 # 0
        y_is_odd == y % 2 # 0
        dd == y - x
        k1 == select(dd, x, x_is_odd /\ y_is_odd)
        k2 == select(select(x, dd, x_is_odd /\ y_is_odd), y, x_is_odd /\ ~y_is_odd) \div 2
    IN cond_swap(k1, k2, k2 < k1)

----------------------------------------------------------------------------
\* sict_gcd(p, a) and sict_gcd2(p, a), one action per loop iteration.

\* The coefficient of u with its sign lost.
sict_gcd_t1_unsigned(x, y) ==
    LET s == x % 2
        z == y % 2
    IN ((s + z) % 2) * y + (1 - 2 * s * z) * x

\* t1 = (s ^ z) * v + (2 * s * z - 1) * u
sict_gcd_t1(x, y) ==
    LET s == x % 2
        z == y % 2
    IN ((s + z) % 2) * y + (2 * s * z - 1) * x

\* t2 = (s * v + (2 - 2 * s - z) * u) >> 1
sict_gcd_t2(x, y) ==
    LET s == x % 2
        z == y % 2
    IN (s * y + (2 - 2 * s - z) * x) \div 2

\* Loop body of sict_gcd: the signed arithmetic formula of Alg 8.
sict_gcd_body(x, y) ==
    LET f1 == sict_gcd_t1(x, y)
        f2 == sict_gcd_t2(x, y)
    IN cond_swap(f1, f2, f2 < f1)

\* Loop body of sict_gcd2 (gcd.py): the select-based version.
sict_gcd2_body(x, y) ==
    LET dd == y - x
        x_is_odd == x % 2 # 0
        y_is_odd == y % 2 # 0
        k1 == select(dd, x, x_is_odd /\ y_is_odd)
        k2 == select(select(x, dd, x_is_odd /\ y_is_odd), y, x_is_odd /\ ~y_is_odd) \div 2
        lt == k2 < k1
    IN cond_swap(k1, k2, lt)

\* Both asserts, then u, v = a, p.
gcd_assert ==
    /\ pc = "gcd_assert"
    /\ IF p >= a /\ a >= 0 /\ (p % 2 # 0 \/ a % 2 # 0)
       THEN /\ u' = a
            /\ v' = p
            /\ i' = 0
            /\ pc' = "gcd_loop"
            /\ UNCHANGED <<outcome, result>>
       ELSE Raise /\ UNCHANGED <<u, v, i>>
    /\ UNCHANGED <<func, args, a, p, q, r, gcdLocals, ops, ret>>

gcd_in_range == i < 2 * bit_length(p)

gcd_iterate ==
    /\ pc = "gcd_loop"
    /\ gcd_in_range
    /\ LET uv == IF func = "sict_gcd" THEN sict_gcd_body(u, v) ELSE sict_gcd2_body(u, v)
       IN u' = uv[1] /\ v' = uv[2]
    /\ i' = i + 1
    /\ UNCHANGED <<func, args, pc, a, p, q, r, gcdLocals, ops, ret, outcome, result>>

gcd_return ==
    /\ pc = "gcd_loop"
    /\ ~gcd_in_range
    /\ Return(v)
    /\ UNCHANGED <<func, args, a, p, u, v, q, r, i, gcdLocals, ops, ret>>

----------------------------------------------------------------------------
\* si_gcd(a, b), one action per loop iteration: the three explicit branches
\* of Alg 7.  Its parameters (a, b) are bound to (p, a), as for sict_gcd.

max_min(x, y) == IF x > y THEN <<x, y>> ELSE <<y, x>>

\* Loop body of si_gcd on (u, v) = (x, y); the result is <<u, v>>.
si_gcd_body(x, y) ==
    LET dd == y - x
        vu == IF x % 2 = 0 THEN max_min(x \div 2, dd)
              ELSE IF y % 2 # 0 THEN max_min(dd \div 2, x)
              ELSE max_min(y \div 2, dd)
    IN <<vu[2], vu[1]>>

call_si_gcd ==
    /\ pc = "main"
    /\ func = "si_gcd"
    /\ p' = args[1]
    /\ a' = args[2]
    /\ pc' = "si_assert"
    /\ UNCHANGED <<func, args, u, v, q, r, i, gcdLocals, ops, ret, outcome, result>>

\* Both asserts, then u, v = b, a.
si_assert ==
    /\ pc = "si_assert"
    /\ IF p >= a /\ a >= 0 /\ (p % 2 # 0 \/ a % 2 # 0)
       THEN /\ u' = a
            /\ v' = p
            /\ i' = 0
            /\ pc' = "si_loop"
            /\ UNCHANGED <<outcome, result>>
       ELSE Raise /\ UNCHANGED <<u, v, i>>
    /\ UNCHANGED <<func, args, a, p, q, r, gcdLocals, ops, ret>>

\* for _ in range(2 * a.bit_length())
si_in_range == i < 2 * bit_length(p)

si_iterate ==
    /\ pc = "si_loop"
    /\ si_in_range
    /\ LET uv == si_gcd_body(u, v)
       IN u' = uv[1] /\ v' = uv[2]
    /\ i' = i + 1
    /\ UNCHANGED <<func, args, pc, a, p, q, r, gcdLocals, ops, ret, outcome, result>>

si_return ==
    /\ pc = "si_loop"
    /\ ~si_in_range
    /\ Return(v)
    /\ UNCHANGED <<func, args, a, p, u, v, q, r, i, gcdLocals, ops, ret>>

----------------------------------------------------------------------------
\* bin_gcd_fix13(a, b) and bin_gcd_fix123(a, b), one action per iteration of
\* the for loop.  The parameters are updated in place by the code: u and v
\* hold their current values, p and a the values at entry.

\* while x & 1 == 0 and x != 0: x >>= 1
RECURSIVE halve_while_even(_)
halve_while_even(x) ==
    IF x % 2 = 0 /\ x # 0 THEN halve_while_even(x \div 2) ELSE x

\* Loop body of bin_gcd_fix13 on (a, b) = (x, y).
bin_gcd_fix13_body(x, y) ==
    LET odd_x == halve_while_even(x)
        odd_y == halve_while_even(y)
        swap == odd_y > odd_x
        xy == cond_swap(odd_x, odd_y, swap)
    IN <<xy[1] - xy[2], xy[2]>>

\* Loop body of bin_gcd_fix123 on (a, b) = (x, y).
bin_gcd_fix123_body(x, y) ==
    LET shift_a == x % 2 = 0
        x1 == select(x, x \div 2, shift_a)
        shift_b == y % 2 = 0
        y1 == select(y, y \div 2, shift_b)
        subtract == ~shift_a /\ ~shift_b
        xy == cond_swap(x1, y1, y1 > x1 /\ subtract)
    IN <<select(xy[1], xy[1] - xy[2], subtract), xy[2]>>

\* nb_iter = a.bit_length()
bin_gcd_fix13_nb_iter(x) == bit_length(x)

\* A budget of two rounds per bit.
bin_gcd_fix123_nb_iter_2(x) == bit_length(x) * 2

\* nb_iter = a.bit_length() * 3
bin_gcd_fix123_nb_iter(x) == bit_length(x) * 3

call_bin_gcd ==
    /\ pc = "main"
    /\ func \in BinGcdFuncs
    /\ p' = args[1]
    /\ a' = args[2]
    /\ pc' = "bin_assert"
    /\ UNCHANGED <<func, args, u, v, q, r, i, gcdLocals, ops, ret, outcome, result>>

\* assert a >= b >= 0; assert a & 1 != 0 or b & 1 != 0
bin_assert ==
    /\ pc = "bin_assert"
    /\ IF p >= a /\ a >= 0 /\ (p % 2 # 0 \/ a % 2 # 0)
       THEN /\ u' = p
            /\ v' = a
            /\ i' = 0
            /\ pc' = "bin_loop"
            /\ UNCHANGED <<outcome, result>>
       ELSE Raise /\ UNCHANGED <<u, v, i>>
    /\ UNCHANGED <<func, args, a, p, q, r, gcdLocals, ops, ret>>

\* for _ in range(nb_iter)
bin_in_range ==
    i < (IF func = "bin_gcd_fix13" THEN bin_gcd_fix13_nb_iter(p)
         ELSE bin_gcd_fix123_nb_iter(p))

bin_iterate ==
    /\ pc = "bin_loop"
    /\ bin_in_range
    /\ LET xy == IF func = "bin_gcd_fix13" THEN bin_gcd_fix13_body(u, v)
                 ELSE bin_gcd_fix123_body(u, v)
       IN u' = xy[1] /\ v' = xy[2]
    /\ i' = i + 1
    /\ UNCHANGED <<func, args, pc, a, p, q, r, gcdLocals, ops, ret, outcome, result>>

\* return select(a, b, a == 0)
bin_return ==
    /\ pc = "bin_loop"
    /\ ~bin_in_range
    /\ Return(select(u, v, u = 0))
    /\ UNCHANGED <<func, args, a, p, u, v, q, r, i, gcdLocals, ops, ret>>

----------------------------------------------------------------------------
\* sict_mi(a, p), one action per loop iteration.  The state of a round is
\* <<u, v, q, r>>; the decisions are taken on (u, v) only.

\* Loop body of sict_mi in courses/modular/ct-pres.py.
sict_mi_body(x, y, cq, cr, n) ==
    LET x_is_odd == x % 2 # 0
        y_is_odd == y % 2 # 0
        dd == y - x
        k1 == select(dd, x, x_is_odd /\ y_is_odd)
        k2 == select(select(x, dd, x_is_odd /\ y_is_odd), y, x_is_odd /\ ~y_is_odd) \div 2
        dm == sub_mod(cq, cr, n)
        k3 == (select(dm, cr, x_is_odd /\ y_is_odd) * 2) % n
        k4 == select(select(cr, dm, x_is_odd /\ y_is_odd), cq, x_is_odd /\ ~y_is_odd)
        lt == k2 < k1
        uv == cond_swap(k1, k2, lt)
        rq == cond_swap(k3, k4, lt)
    IN <<uv[1], uv[2], rq[2], rq[1]>>

\* Loop body of sict_mi in maths/modinv.py: doubling by add_mod.
maths_sict_mi_body(x, y, cq, cr, n) ==
    LET x_is_odd == x % 2 # 0
        y_is_odd == y % 2 # 0
        dd == y - x
        k1 == select(dd, x, x_is_odd /\ y_is_odd)
        k2 == select(select(x, dd, x_is_odd /\ y_is_odd), y, x_is_odd /\ ~y_is_odd) \div 2
        dm == maths_sub_mod(cq, cr, n)
        s3 == select(dm, cr, x_is_odd /\ y_is_odd)
        k3 == add_mod(s3, s3, n)
        k4 == select(select(cr, dm, x_is_odd /\ y_is_odd), cq, x_is_odd /\ ~y_is_odd)
        lt == k2 < k1
        uv == cond_swap(k1, k2, lt)
        rq == cond_swap(k3, k4, lt)
    IN <<uv[1], uv[2], rq[2], rq[1]>>

\* t3 of a round of the maths/modinv.py loop, before it is doubled.
maths_sict_mi_t3(x, y, cq, cr, n) ==
    LET x_is_odd == x % 2 # 0
        y_is_odd == y % 2 # 0
        dm == maths_sub_mod(cq, cr, n)
    IN select(dm, cr, x_is_odd /\ y_is_odd)

\* The harness calls a1 = func(a, n), bound to (a, p).
call_mi ==
    /\ pc = "main"
    /\ func \in MiFuncs
    /\ a' = args[1]
    /\ p' = args[2]
    /\ pc' = "mi_assert"
    /\ UNCHANGED <<func, args, u, v, q, r, i, gcdLocals, ops, ret, outcome, result>>

\* assert p >= a >= 0; assert p & 1 != 0
mi_precondition(x, n) == n >= x /\ x >= 0 /\ n % 2 # 0

\* Both asserts, then u, v, q, r = a, p, 0, 1.
mi_assert ==
    /\ pc = "mi_assert"
    /\ IF mi_precondition(a, p)
       THEN /\ u' = a
            /\ v' = p
            /\ q' = 0
            /\ r' = 1
            /\ i' = 0
            /\ pc' = "mi_loop"
            /\ UNCHANGED <<outcome, result>>
       ELSE Raise /\ UNCHANGED <<u, v, q, r, i>>
    /\ UNCHANGED <<func, args, a, p, gcdLocals, ops, ret>>

\* A loop that stops as soon as u is 0.
mi_in_range_early == i < 2 * bit_length(p) /\ u # 0

\* for _ in range(2 * p.bit_length())
mi_in_range == i < 2 * bit_length(p)

mi_iterate ==
    /\ pc = "mi_loop"
    /\ mi_in_range
    /\ LET st == IF func = "maths_sict_mi"
                 THEN maths_sict_mi_body(u, v, q, r, p)
                 ELSE sict_mi_body(u, v, q, r, p)
       IN u' = st[1] /\ v' = st[2] /\ q' = st[3] /\ r' = st[4]
    /\ i' = i + 1
    /\ UNCHANGED <<func, args, pc, a, p, gcdLocals, ops, ret, outcome, result>>

\* A check that only rejects 0.
mi_postcondition_lax(y) == y # 0

\* assert v == 1
mi_postcondition(y) == y = 1

\* The loop is over: assert v == 1, return div2l_mod(q, p) to the caller.
mi_return ==
    /\ pc = "mi_loop"
    /\ ~mi_in_range
    /\ IF mi_postcondition(v)
       THEN LET x == IF func = "maths_sict_mi" THEN maths_div2l_mod(q, p)
                     ELSE div2l_mod(q, p)
            IN IF func \in MiFuncs
               THEN Return(x) /\ UNCHANGED ret
               ELSE /\ ret' = x
                    /\ pc' = IF func = "sict_mi_2mod4" THEN "L388" ELSE "L405"
                    /\ UNCHANGED <<outcome, result>>
       ELSE Raise /\ UNCHANGED ret
    /\ UNCHANGED <<func, args, a, p, u, v, q, r, i, gcdLocals, ops>>

----------------------------------------------------------------------------
\* sict_mi2(a, p): the cofactor t4 is halved in every round.

\* Loop body of sict_mi2.
sict_mi2_body(x, y, cq, cr, n) ==
    LET x_is_odd == x % 2 # 0
        y_is_odd == y % 2 # 0
        dd == y - x
        k1 == select(dd, x, x_is_odd /\ y_is_odd)
        k2 == select(select(x, dd, x_is_odd /\ y_is_odd), y, x_is_odd /\ ~y_is_odd) \div 2
        dm == sub_mod(cq, cr, n)
        k3 == select(dm, cr, x_is_odd /\ y_is_odd)
        k4 == div2_mod(select(select(cr, dm, x_is_odd /\ y_is_odd), cq, x_is_odd /\ ~y_is_odd), n)
        lt == k2 < k1
        uv == cond_swap(k1, k2, lt)
        rq == cond_swap(k3, k4, lt)
    IN <<uv[1], uv[2], rq[2], rq[1]>>

call_mi2 ==
    /\ pc = "main"
    /\ func = "sict_mi2"
    /\ a' = args[1]
    /\ p' = args[2]
    /\ pc' = "mi2_assert"
    /\ UNCHANGED <<func, args, u, v, q, r, i, gcdLocals, ops, ret, outcome, result>>

\* assert p >= a >= 0; assert p & 1 != 0; then u, v, q, r = a, p, 0, 1.
mi2_assert ==
    /\ pc = "mi2_assert"
    /\ IF p >= a /\ a >= 0 /\ p % 2 # 0
       THEN /\ u' = a
            /\ v' = p
            /\ q' = 0
            /\ r' = 1
            /\ i' = 0
            /\ pc' = "mi2_loop"
            /\ UNCHANGED <<outcome, result>>
       ELSE Raise /\ UNCHANGED <<u, v, q, r, i>>
    /\ UNCHANGED <<func, args, a, p, gcdLocals, ops, ret>>

\* for _ in range(2 * p.bit_length())
mi2_in_range == i < 2 * bit_length(p)

mi2_iterate ==
    /\ pc = "mi2_loop"
    /\ mi2_in_range
    /\ LET st == sict_mi2_body(u, v, q, r, p)
       IN u' = st[1] /\ v' = st[2] /\ q' = st[3] /\ r' = st[4]
    /\ i' = i + 1
    /\ UNCHANGED <<func, args, pc, a, p, gcdLocals, ops, ret, outcome, result>>

\* assert v == 1; return q
mi2_return ==
    /\ pc = "mi2_loop"
    /\ ~mi2_in_range
    /\ IF v = 1 THEN Return(q) ELSE Raise
    /\ UNCHANGED <<func, args, a, p, u, v, q, r, i, gcdLocals, ops, ret>>

----------------------------------------------------------------------------
\* sict_mi_2mod4(a, n): args = <<a, n>>.

call_mi_2mod4 ==
    /\ pc = "main"
    /\ func = "sict_mi_2mod4"
    /\ pc' = "L372"
    /\ UNCHANGED <<func, args, a, p, u, v, q, r, i, gcdLocals, ops, ret, outcome, result>>

\* assert 0 < a < n; assert n % 4 == 2
mi_2mod4_precondition(x, n) == 0 < x /\ x < n /\ n % 4 = 2

\* Both asserts, n2 = n >> 1, then the call sict_mi(a % n2, n2).
mi_2mod4_enter ==
    /\ pc = "L372"
    /\ IF mi_2mod4_precondition(args[1], args[2])
       THEN LET n2 == args[2] \div 2
            IN /\ a' = args[1] % n2
               /\ p' = n2
               /\ pc' = "mi_assert"
               /\ UNCHANGED <<outcome, result>>
       ELSE Raise /\ UNCHANGED <<a, p>>
    /\ UNCHANGED <<func, args, u, v, q, r, i, gcdLocals, ops, ret>>

\* The even candidate picked instead of the odd one.
lift_2mod4_even(i2, n2) == select(i2, i2 + n2, i2 % 2 # 0)

\* select(i2, i2 + n2, i2 & 1 == 0)
lift_2mod4(i2, n2) == select(i2, i2 + n2, i2 % 2 = 0)

mi_2mod4_return ==
    /\ pc = "L388"
    /\ Return(lift_2mod4(ret, args[2] \div 2))
    /\ UNCHANGED <<func, args, a, p, u, v, q, r, i, gcdLocals, ops, ret>>

----------------------------------------------------------------------------
\* sict_mi_a_odd(a, n): args = <<a, n>>.

call_mi_a_odd ==
    /\ pc = "main"
    /\ func = "sict_mi_a_odd"
    /\ pc' = "L399"
    /\ UNCHANGED <<func, args, a, p, u, v, q, r, i, gcdLocals, ops, ret, outcome, result>>

\* assert a > 1; assert n > 1
mi_a_odd_precondition(x, n) == x > 1 /\ n > 1

\* The inner call made on (a % n, n): the inverse of a asked for directly.
mi_a_odd_enter_direct ==
    /\ pc = "L399"
    /\ IF mi_a_odd_precondition(args[1], args[2])
       THEN /\ a' = args[1] % args[2]
            /\ p' = args[2]
            /\ pc' = "mi_assert"
            /\ UNCHANGED <<outcome, result>>
       ELSE Raise /\ UNCHANGED <<a, p>>
    /\ UNCHANGED <<func, args, u, v, q, r, i, gcdLocals, ops, ret>>

\* Both asserts, then the call n1 = sict_mi(n % a, a).
mi_a_odd_enter ==
    /\ pc = "L399"
    /\ IF mi_a_odd_precondition(args[1], args[2])
       THEN /\ a' = args[2] % args[1]
            /\ p' = args[1]
            /\ pc' = "mi_assert"
            /\ UNCHANGED <<outcome, result>>
       ELSE Raise /\ UNCHANGED <<a, p>>
    /\ UNCHANGED <<func, args, u, v, q, r, i, gcdLocals, ops, ret>>

\* k returned instead of n - k.
bezout_inverse_k(x, n, n1) ==
    LET k == (n * n1 - 1) \div x
    IN k

\* k = (n * n1 - 1) // a; return n - k
bezout_inverse(x, n, n1) ==
    LET k == (n * n1 - 1) \div x
    IN n - k

mi_a_odd_return ==
    /\ pc = "L405"
    /\ Return(bezout_inverse(args[1], args[2], ret))
    /\ UNCHANGED <<func, args, a, p, u, v, q, r, i, gcdLocals, ops, ret>>

----------------------------------------------------------------------------
\* The modular helpers as calls of their own: the call evaluates the
\* function on the arguments and returns.

Apply(f, x) ==
    /\ pc = "main"
    /\ func = f
    /\ Return(x)
    /\ UNCHANGED <<func, args, a, p, u, v, q, r, i, gcdLocals, ops, ret>>

call_div2_mod == Apply("div2_mod", div2_mod(args[1], args[2]))

call_div2l_mod == Apply("div2l_mod", div2l_mod(args[1], args[2]))

call_maths_div2_mod == Apply("maths_div2_mod", maths_div2_mod(args[1], args[2]))

call_maths_div2l_mod == Apply("maths_div2l_mod", maths_div2l_mod(args[1], args[2]))

call_add_mod == Apply("add_mod", add_mod(args[1], args[2], args[3]))

----------------------------------------------------------------------------
\* egcd.py: the extended GCD functions, each returning <<g, u, v>>.

\* The divisions of euclid_intuitive, remembered as <<a, b, q, r>>, until the
\* remainder is 0.
RECURSIVE ei_lines(_, _, _)
ei_lines(x, y, lines) ==
    LET qq == x \div y
        rr == x % y
    IN IF rr = 0 THEN lines
       ELSE ei_lines(y, rr, Append(lines, <<x, y, qq, rr>>))

\* Back up the chain, from line k down to line 1: u, v = v, u - qi * v.
RECURSIVE ei_climb(_, _, _, _)
ei_climb(lines, k, cu, cv) ==
    IF k = 0 THEN <<cu, cv>>
    ELSE ei_climb(lines, k - 1, cv, cu - lines[k][3] * cv)

RECURSIVE euclid_intuitive(_, _)
euclid_intuitive(x, y) ==
    IF y > x
    THEN LET sw == euclid_intuitive(y, x) IN <<sw[1], sw[3], sw[2]>>
    ELSE IF y = 0 THEN <<x, 1, 1>>
    ELSE IF x % y = 0 THEN <<y, 0, 1>>
    ELSE LET lines == ei_lines(x, y, <<>>)
             last == lines[Len(lines)]
             uv == ei_climb(lines, Len(lines) - 1, 1, 0 - last[3])
         IN <<last[4], uv[1], uv[2]>>

\* The new remainder of euclid_direct with 'minus' read as 'plus'.
ed_remainder_plus(qq, c1, c2) == c1 + qq * c2

\* rs, rt = u - q * s, v - q * t: one coefficient of the new remainder.
ed_remainder(qq, c1, c2) == c1 - qq * c2

\* The loop of euclid_direct on (ai, u, v), (bi, s, t).
RECURSIVE ed_loop(_, _, _, _, _, _)
ed_loop(xi, cu, cv, yi, cs, ct) ==
    IF yi = 0 THEN <<xi, cu, cv>>
    ELSE LET qq == xi \div yi
             rr == xi % yi
         IN ed_loop(yi, cs, ct, rr, ed_remainder(qq, cu, cs), ed_remainder(qq, cv, ct))

RECURSIVE euclid_direct(_, _)
euclid_direct(x, y) ==
    IF y > x
    THEN LET sw == euclid_direct(y, x) IN <<sw[1], sw[3], sw[2]>>
    ELSE ed_loop(x, 1, 0, y, 0, 1)

\* Take out the factors 2 common to a and b: <<a, b, g>>.
RECURSIVE common_twos(_, _, _)
common_twos(x, y, g) ==
    IF x % 2 = 0 /\ y % 2 = 0 THEN common_twos(x \div 2, y \div 2, 2 * g)
    ELSE <<x, y, g>>

\* while ai & 1 == 0: halve ai, u, v, after making u and v even by adding
\* 0 = a * b + b * (-a).
RECURSIVE bin_halve(_, _, _, _, _)
bin_halve(xi, cu, cv, x, y) ==
    IF xi % 2 # 0 THEN <<xi, cu, cv>>
    ELSE LET fix == cu % 2 # 0 \/ cv % 2 # 0
             fu == IF fix THEN cu + y ELSE cu
             fv == IF fix THEN cv - x ELSE cv
         IN bin_halve(xi \div 2, fu \div 2, fv \div 2, x, y)

\* while ai != bi: order the two, subtract, halve.
RECURSIVE bin_loop(_, _, _, _, _, _, _, _)
bin_loop(xi, cu, cv, yi, cs, ct, x, y) ==
    IF xi = yi THEN <<xi, cu, cv>>
    ELSE IF yi > xi THEN bin_loop(yi, cs, ct, xi, cu, cv, x, y)
    ELSE LET h == bin_halve(xi - yi, cu - cs, cv - ct, x, y)
         IN bin_loop(h[1], h[2], h[3], yi, cs, ct, x, y)

binary(x0, y0) ==
    IF x0 = 0 THEN <<y0, 1, 1>>
    ELSE IF y0 = 0 THEN <<x0, 1, 1>>
    ELSE LET c == common_twos(x0, y0, 1)
             x == c[1]
             y == c[2]
             first == IF x % 2 # 0 THEN <<y, 0, 1, x, 1, 0>> ELSE <<x, 1, 0, y, 0, 1>>
             h == bin_halve(first[1], first[2], first[3], x, y)
             e == bin_loop(h[1], h[2], h[3], first[4], first[5], first[6], x, y)
         IN <<c[3] * e[1], e[2], e[3]>>

\* A call of a function whose only assert is a >= 0 and b >= 0.
ApplyNonNegative(f, x) ==
    /\ pc = "main"
    /\ func = f
    /\ IF args[1] >= 0 /\ args[2] >= 0 THEN Return(x) ELSE Raise
    /\ UNCHANGED <<func, args, a, p, u, v, q, r, i, gcdLocals, ops, ret>>

call_euclid_intuitive ==
    ApplyNonNegative("euclid_intuitive", euclid_intuitive(args[1], args[2]))

call_euclid_direct ==
    ApplyNonNegative("euclid_direct", euclid_direct(args[1], args[2]))

call_binary == ApplyNonNegative("binary", binary(args[1], args[2]))

----------------------------------------------------------------------------
\* gcd.py: euclid_gcd and binary_gcd.

RECURSIVE eg_loop(_, _)
eg_loop(x, y) == IF y = 0 THEN x ELSE eg_loop(y, x % y)

euclid_gcd(x, y) == IF y > x THEN eg_loop(y, x) ELSE eg_loop(x, y)

\* while a & 1 == 0: a >>= 1
RECURSIVE strip_twos(_)
strip_twos(x) == IF x % 2 = 0 THEN strip_twos(x \div 2) ELSE x

\* while a != b: order the two, a -= b, strip the factors 2 of a.
RECURSIVE bg_loop(_, _)
bg_loop(x, y) ==
    IF x = y THEN x
    ELSE IF y > x THEN bg_loop(y, x)
    ELSE bg_loop(strip_twos(x - y), y)

\* The common factors 2 dropped from the result.
binary_gcd_odd_part(x, y) ==
    IF x = 0 THEN y
    ELSE IF y = 0 THEN x
    ELSE LET c == common_twos(x, y, 1)
         IN bg_loop(strip_twos(c[1]), strip_twos(c[2]))

binary_gcd(x, y) ==
    IF x = 0 THEN y
    ELSE IF y = 0 THEN x
    ELSE LET c == common_twos(x, y, 1)
         IN c[3] * bg_loop(strip_twos(c[1]), strip_twos(c[2]))

call_euclid_gcd == ApplyNonNegative("euclid_gcd", euclid_gcd(args[1], args[2]))

call_binary_gcd == ApplyNonNegative("binary_gcd", binary_gcd(args[1], args[2]))

----------------------------------------------------------------------------
\* The inverse functions as functions of their arguments: what a whole call
\* evaluates to, an AssertionError or a returned value.

Error == [outcome |-> "error", result |-> 0]

Value(x) == [outcome |-> "value", result |-> x]

\* k rounds of the loop of sict_mi from the state st = <<u, v, q, r>>.
RECURSIVE sict_mi_loop(_, _, _)
sict_mi_loop(st, n, k) ==
    IF k = 0 THEN st
    ELSE sict_mi_loop(sict_mi_body(st[1], st[2], st[3], st[4], n), n, k - 1)

sict_mi(x, n) ==
    IF ~mi_precondition(x, n) THEN Error
    ELSE LET st == sict_mi_loop(<<x, n, 0, 1>>, n, 2 * bit_length(n))
         IN IF mi_postcondition(st[2]) THEN Value(div2l_mod(st[3], n)) ELSE Error

sict_mi_2mod4(x, n) ==
    IF ~mi_2mod4_precondition(x, n) THEN Error
    ELSE LET n2 == n \div 2
             i2 == sict_mi(x % n2, n2)
         IN IF i2.outcome = "error" THEN Error
            ELSE Value(lift_2mod4(i2.result, n2))

sict_mi_a_odd(x, n) ==
    IF ~mi_a_odd_precondition(x, n) THEN Error
    ELSE LET n1 == sict_mi(n % x, x)
         IN IF n1.outcome = "error" THEN Error
            ELSE Value(bezout_inverse(x, n, n1.result))

\* k rounds of the loop of sict_mi2 from the state st = <<u, v, q, r>>.
RECURSIVE sict_mi2_loop(_, _, _)
sict_mi2_loop(st, n, k) ==
    IF k = 0 THEN st
    ELSE sict_mi2_loop(sict_mi2_body(st[1], st[2], st[3], st[4], n), n, k - 1)

sict_mi2(x, n) ==
    IF ~(n >= x /\ x >= 0 /\ n % 2 # 0) THEN Error
    ELSE LET st == sict_mi2_loop(<<x, n, 0, 1>>, n, 2 * bit_length(n))
         IN IF st[2] = 1 THEN Value(st[3]) ELSE Error

\* The swap decision of a round of sict_mi: lt = t2 < t1.
sict_mi_lt(x, y) ==
    LET x_is_odd == x % 2 # 0
        y_is_odd == y % 2 # 0
        dd == y - x
        k1 == select(dd, x, x_is_odd /\ y_is_odd)
        k2 == select(select(x, dd, x_is_odd /\ y_is_odd), y, x_is_odd /\ ~y_is_odd) \div 2
    IN k2 < k1

\* The swap decision of a round of sict_mi2: lt = t2 < t1.
sict_mi2_lt(x, y) ==
    LET x_is_odd == x % 2 # 0
        y_is_odd == y % 2 # 0
        dd == y - x
        k1 == select(dd, x, x_is_odd /\ y_is_odd)
        k2 == select(select(x, dd, x_is_odd /\ y_is_odd), y, x_is_odd /\ ~y_is_odd) \div 2
    IN k2 < k1

\* k rounds of the loop of sict_gcd from st = <<u, v>>.
RECURSIVE sict_gcd_loop(_, _)
sict_gcd_loop(st, k) ==
    IF k = 0 THEN st ELSE sict_gcd_loop(sict_gcd_body(st[1], st[2]), k - 1)

\* k rounds of the loop of si_gcd from st = <<u, v>>.
RECURSIVE si_gcd_loop(_, _)
si_gcd_loop(st, k) ==
    IF k = 0 THEN st ELSE si_gcd_loop(si_gcd_body(st[1], st[2]), k - 1)

----------------------------------------------------------------------------
Next ==
    \/ call_gcd
    \/ sict_gcd_readable
    \/ gcd_assert \/ gcd_iterate \/ gcd_return
    \/ call_si_gcd \/ si_assert \/ si_iterate \/ si_return
    \/ call_bin_gcd \/ bin_assert \/ bin_iterate \/ bin_return
    \/ call_mi \/ mi_assert \/ mi_iterate \/ mi_return
    \/ call_mi_2mod4 \/ mi_2mod4_enter \/ mi_2mod4_return
    \/ call_mi_a_odd \/ mi_a_odd_enter \/ mi_a_odd_return
    \/ call_mi2 \/ mi2_assert \/ mi2_iterate \/ mi2_return
    \/ call_div2_mod \/ call_div2l_mod \/ call_maths_div2_mod \/ call_maths_div2l_mod
    \/ call_add_mod
    \/ call_euclid_intuitive \/ call_euclid_direct \/ call_binary
    \/ call_euclid_gcd \/ call_binary_gcd

Spec == Init /\ [][Next]_vars

----------------------------------------------------------------------------
\* Properties.

InverseOf(x, y, n) == 0 <= x /\ x < n /\ (x * y) % n = 1

\* C1: for every p >= a >= 0 with at least one of p, a odd, sict_gcd,
\* sict_gcd_readable and sict_gcd2 return math.gcd(p, a); with a = 0 the
\* result is p, so gcd(1, 0) = 1.
C1_GcdCorrect ==
    (/\ func \in GcdFuncs
     /\ pc = "done"
     /\ args[1] >= args[2]
     /\ args[2] >= 0
     /\ (args[1] % 2 # 0 \/ args[2] % 2 # 0))
    => /\ outcome = "value"
       /\ result = math_gcd(args[1], args[2])
       /\ (args[2] = 0 => result = args[1])

C1_Witness ==
    /\ func \in GcdFuncs
    /\ pc = "done"
    /\ outcome = "value"
    /\ 1 < result
    /\ result < args[2]
    /\ args[2] < args[1]

\* C2: for every odd p > 1 and 0 <= a < p with gcd(a, p) = 1, sict_mi(a, p)
\* returns x with 0 <= x < p and (x * a) mod p = 1; sict_mi(1, p) = 1.
C2_InverseCorrect ==
    (/\ func \in MiFuncs
     /\ pc = "done"
     /\ args[2] > 1
     /\ args[2] % 2 # 0
     /\ 0 <= args[1]
     /\ args[1] < args[2]
     /\ math_gcd(args[1], args[2]) = 1)
    => /\ outcome = "value"
       /\ InverseOf(result, args[1], args[2])
       /\ (args[1] = 1 => result = 1)

C2_Witness ==
    /\ func = "sict_mi"
    /\ pc = "done"
    /\ outcome = "value"
    /\ args[1] > 1
    /\ result > 1
    /\ result # args[1]
    /\ InverseOf(result, args[1], args[2])

\* C3: for every n with n mod 4 = 2 (n = 2 included) and 0 < a < n with
\* gcd(a, n) = 1, sict_mi_2mod4(a, n) returns x with 0 <= x < n and
\* (x * a) mod n = 1; sict_mi_2mod4(3, 10) = 7.
C3_Inverse2mod4 ==
    (/\ func = "sict_mi_2mod4"
     /\ pc = "done"
     /\ args[2] % 4 = 2
     /\ 0 < args[1]
     /\ args[1] < args[2]
     /\ math_gcd(args[1], args[2]) = 1)
    => /\ outcome = "value"
       /\ InverseOf(result, args[1], args[2])
       /\ (args = <<3, 10>> => result = 7)

C3_Witness ==
    /\ func = "sict_mi_2mod4"
    /\ pc = "done"
    /\ args = <<3, 10>>
    /\ outcome = "value"
    /\ result = 7

\* C4: for every odd a > 1 and every n > 1 with gcd(a, n) = 1 (n odd or even,
\* a possibly larger than n), sict_mi_a_odd(a, n) returns x with 0 < x < n
\* and (x * a) mod n = 1.
C4_InverseAOdd ==
    (/\ func = "sict_mi_a_odd"
     /\ pc = "done"
     /\ args[1] > 1
     /\ args[1] % 2 # 0
     /\ args[2] > 1
     /\ math_gcd(args[1], args[2]) = 1)
    => /\ outcome = "value"
       /\ 0 < result
       /\ InverseOf(result, args[1], args[2])

C4_Witness ==
    /\ func = "sict_mi_a_odd"
    /\ pc = "done"
    /\ outcome = "value"
    /\ args[1] > args[2]
    /\ args[2] % 4 = 0
    /\ 1 < result
    /\ InverseOf(result, args[1], args[2])

\* C5: for every odd p > 1 and 0 <= a <= p with gcd(a, p) # 1 (a = 0 and
\* a = p included), sict_mi(a, p) ends in the error raised by the check
\* v == 1 after the whole loop, and returns no value.
C5_NoInverseIsError ==
    (/\ func \in MiFuncs
     /\ pc = "done"
     /\ args[2] > 1
     /\ args[2] % 2 # 0
     /\ 0 <= args[1]
     /\ args[1] <= args[2]
     /\ math_gcd(args[1], args[2]) # 1)
    => /\ outcome = "error"
       /\ i = 2 * bit_length(args[2])
       /\ v # 1

C5_Witness ==
    /\ func \in MiFuncs
    /\ pc = "done"
    /\ outcome = "error"
    /\ 0 < args[1]
    /\ args[1] < args[2]
    /\ args[2] % 2 # 0
    /\ math_gcd(args[1], args[2]) # 1
    /\ v = math_gcd(args[1], args[2])

\* C6: for every n with n mod 4 = 2 and 0 < a < n with gcd(a, n) # 1,
\* sict_mi_2mod4(a, n) signals a failure and returns no value.
C6_2mod4SignalsNoInverse ==
    (/\ func = "sict_mi_2mod4"
     /\ pc = "done"
     /\ args[2] % 4 = 2
     /\ 0 < args[1]
     /\ args[1] < args[2]
     /\ math_gcd(args[1], args[2]) # 1)
    => outcome = "error"

\* The entry points the parities of (a, n) dispatch to.
Dispatch(x, n) ==
    (IF n % 2 # 0 THEN {"sict_mi"} ELSE {})
    \cup (IF n % 4 = 2 THEN {"sict_mi_2mod4"} ELSE {})
    \cup (IF x % 2 # 0 THEN {"sict_mi_a_odd"} ELSE {})

EntryPoint(e, x, n) ==
    IF e = "sict_mi" THEN sict_mi(x, n)
    ELSE IF e = "sict_mi_2mod4" THEN sict_mi_2mod4(x, n)
    ELSE sict_mi_a_odd(x, n)

\* The whole-call operators and the step-by-step runs agree on every call.
RunMatchesFunction ==
    (pc = "done" /\ func \in {"sict_mi", "sict_mi_2mod4", "sict_mi_a_odd"})
    => [outcome |-> outcome, result |-> result] = EntryPoint(func, args[1], args[2])

\* C7: whenever a^-1 mod n exists (n > 1, 0 <= a < n, gcd(a, n) = 1), at
\* least one of the entry points the parities dispatch to (sict_mi for n odd,
\* sict_mi_2mod4 for n mod 4 = 2, sict_mi_a_odd for a odd) accepts (a, n) and
\* returns a^-1 mod n: the one just called, or another one.
C7_DispatchCovers ==
    (/\ pc = "done"
     /\ func \in Dispatch(args[1], args[2])
     /\ args[2] > 1
     /\ 0 <= args[1]
     /\ args[1] < args[2]
     /\ math_gcd(args[1], args[2]) = 1)
    => \/ outcome = "value" /\ InverseOf(result, args[1], args[2])
       \/ \E e \in Dispatch(args[1], args[2]) \ {func} :
              LET got == EntryPoint(e, args[1], args[2])
              IN got.outcome = "value" /\ InverseOf(got.result, args[1], args[2])

\* C8: every call of sict_mi(a, p) with p even, with a >= p or with p <= 1
\* ends in an error and returns no value.
C8_OutOfDomainIsError ==
    (/\ func \in MiFuncs
     /\ pc = "done"
     /\ (args[2] % 2 = 0 \/ args[1] >= args[2] \/ args[2] <= 1))
    => outcome = "error"

\* C9: the loops of sict_gcd_readable and of sict_mi are left only after
\* exactly 2 * bitlen(p) iterations, whatever a is and even when u is
\* already 0.
C9_FixedIterationCount ==
    [][/\ (pc = "L208" /\ pc' # "L208" /\ pc' # "L210") => i = 2 * bit_length(p)
       /\ (pc = "mi_loop" /\ pc' # "mi_loop") => i = 2 * bit_length(p)
       /\ (pc = "L224" /\ pc' = "L208") => i' = i + 1
       /\ (pc = "mi_loop" /\ pc' = "mi_loop") => (i' = i \/ i' = i + 1)]_vars

C9_Witness ==
    /\ pc \in {"L210", "mi_loop"}
    /\ u = 0
    /\ 0 < a
    /\ 0 < i
    /\ i < 2 * bit_length(p)

OpCounts(k) == [sub |-> k, shift |-> k, cmp |-> k, select |-> 3 * k, swap |-> k]

\* C10: every iteration of sict_gcd_readable performs one subtraction, one
\* shift, one comparison, three selects and one conditional swap in every
\* parity case, so the totals of a call depend on bitlen(p) only.
C10_OpCounts ==
    func = "sict_gcd_readable"
    => /\ pc = "L208" => ops = OpCounts(i)
       /\ (pc = "done" /\ outcome = "value") => ops = OpCounts(2 * bit_length(args[1]))

C10_Witness ==
    /\ func = "sict_gcd_readable"
    /\ pc = "L208"
    /\ i > 1
    /\ u_is_odd
    /\ ~v_is_odd
    /\ ops = OpCounts(i)
\* The loop heads of sict_gcd_readable and of sict_mi: the states before the
\* first round and after every round.
AtLoopHead == pc \in {"L208", "mi_loop"}

\* C11: in sict_gcd_readable and sict_mi, gcd(u, v) = gcd(a, p) holds
\* initially and after every loop iteration.
C11_GcdPreserved ==
    AtLoopHead => math_gcd(u, v) = math_gcd(a, p)

C11_Witness ==
    /\ AtLoopHead
    /\ i > 1
    /\ 0 < u
    /\ u < a
    /\ math_gcd(a, p) > 1
    /\ math_gcd(u, v) = math_gcd(a, p)

\* C12: in sict_gcd_readable and sict_mi, u <= v holds initially and after
\* every iteration, and the difference d = v - u is never negative.
C12_Ordered ==
    /\ AtLoopHead => u <= v
    /\ pc = "L215" => d >= 0

C12_Witness ==
    /\ pc = "L208"
    /\ i > 0
    /\ t2 < t1
    /\ u = t2
    /\ v = t1
    /\ u < v

\* C13 as claimed: in every state of the loop, u and v both lie in [0, p).
C13_HalfOpenRange ==
    AtLoopHead => 0 <= u /\ u < p /\ 0 <= v /\ v < p

\* C13 as amended: in every state of the loop, u and v lie in the closed
\* range [0, p] (v = p before the first round), and u < p whenever a < p.
C13_ClosedRange ==
    AtLoopHead => /\ 0 <= u /\ u <= p
                  /\ 0 <= v /\ v <= p
                  /\ (i = 0 => v = p)
                  /\ (a < p => u < p)

C13_Witness ==
    /\ AtLoopHead
    /\ i > 0
    /\ a = 0
    /\ u = 0
    /\ v = p
    /\ p > 1

\* C15: when the loop of sict_gcd_readable or sict_mi is over, after
\* 2 * bitlen(p) iterations, u = 0 and v = gcd(a, p); so v = 1 exactly when
\* gcd(a, p) = 1.
C15_BudgetSuffices ==
    (pc = "L226" \/ (pc = "mi_loop" /\ i = 2 * bit_length(p)))
    => /\ u = 0
       /\ v = math_gcd(a, p)
       /\ (v = 1 <=> math_gcd(a, p) = 1)

C15_Witness ==
    /\ pc = "L226"
    /\ i = 2 * bit_length(p)
    /\ u = 0
    /\ 1 < v
    /\ v < a
    /\ a < p

\* C18: once u = 0, every further iteration of sict_gcd_readable and sict_mi
\* leaves (u, v) unchanged; with a = 0 the loop runs as for any other input
\* and v stays equal to p.
C18_PaddingIsNoOp ==
    /\ []((AtLoopHead /\ a = 0) => (u = 0 /\ v = p))
    /\ [][/\ (pc = "L224" /\ u = 0) => (u' = 0 /\ v' = v)
          /\ (pc = "mi_loop" /\ pc' = "mi_loop" /\ u = 0) => (u' = 0 /\ v' = v)]_vars

C18_Witness ==
    /\ pc = "L224"
    /\ u = 0
    /\ a > 0
    /\ v > 1
    /\ i > 0
RECURSIVE Pow2(_)
Pow2(k) == IF k = 0 THEN 1 ELSE 2 * Pow2(k - 1)

\* C14: for odd p and 0 <= a <= p, in sict_mi2 u = a*r and v = a*q (mod p)
\* hold initially and after every iteration; in sict_mi, after i iterations,
\* 2^i * u = a*r and 2^i * v = a*q (mod p), so the scale factor at loop exit
\* is 2^(2 * bitlen(p)).
C14_CofactorInvariant ==
    /\ pc = "mi2_loop" => /\ u % p = (a * r) % p
                          /\ v % p = (a * q) % p
    /\ pc = "mi_loop" => /\ (Pow2(i) * u) % p = (a * r) % p
                         /\ (Pow2(i) * v) % p = (a * q) % p
                         /\ i <= 2 * bit_length(p)

C14_Witness ==
    /\ pc = "mi2_loop"
    /\ i = 2 * bit_length(p)
    /\ a > 1
    /\ v = 1
    /\ q > 1
    /\ (a * q) % p = 1
\* C16: for every n >= 1 and all x, y with 0 <= x < n and 0 <= y < n,
\* add_mod(x, y, n) returns (x + y) mod n, a value in [0, n).
C16_AddMod ==
    (/\ func = "add_mod"
     /\ pc = "done"
     /\ args[3] >= 1
     /\ 0 <= args[1] /\ args[1] < args[3]
     /\ 0 <= args[2] /\ args[2] < args[3])
    => /\ outcome = "value"
       /\ result = (args[1] + args[2]) % args[3]
       /\ 0 <= result
       /\ result < args[3]

\* C17: for every odd n and 0 <= x < n, div2_mod(x, n) returns the unique h
\* in [0, n) with 2 * h = x (mod n), and div2l_mod(x, n) returns the unique y
\* in [0, n) with y * 2^(2 * bitlen(n)) = x (mod n).
C17_Halving ==
    (/\ func \in Div2Funcs \cup Div2lFuncs
     /\ pc = "done"
     /\ args[2] % 2 # 0
     /\ 0 <= args[1]
     /\ args[1] < args[2])
    => LET x == args[1]
           n == args[2]
           scale == IF func \in Div2Funcs THEN 2 ELSE Pow2(2 * bit_length(n))
       IN /\ outcome = "value"
          /\ 0 <= result
          /\ result < n
          /\ (result * scale) % n = x
          /\ \A h \in 0..(n - 1) : (h * scale) % n = x => h = result

C17_Witness ==
    /\ func \in Div2lFuncs
    /\ pc = "done"
    /\ outcome = "value"
    /\ args[2] % 2 # 0
    /\ 1 < args[1]
    /\ args[1] < args[2]
    /\ result # args[1]
    /\ (result * Pow2(2 * bit_length(args[2]))) % args[2] = args[1]
\* C19: for all a >= 0 and b >= 0 (a = 0, b = 0, a < b and both even
\* included), euclid_intuitive, euclid_direct and binary return (g, u, v)
\* with g = gcd(a, b) and a * u + b * v = g.
C19_Bezout ==
    (/\ func \in EgcdFuncs
     /\ pc = "done"
     /\ args[1] >= 0
     /\ args[2] >= 0)
    => /\ outcome = "value"
       /\ result[1] = math_gcd(args[1], args[2])
       /\ args[1] * result[2] + args[2] * result[3] = result[1]

C19_Witness ==
    /\ func = "binary"
    /\ pc = "done"
    /\ outcome = "value"
    /\ 0 < args[1]
    /\ args[1] < args[2]
    /\ args[1] % 2 = 0
    /\ args[2] % 2 = 0
    /\ result[1] > 2
    /\ result[1] < args[1]
    /\ args[1] * result[2] + args[2] * result[3] = result[1]

\* C20 as claimed: the GCD of 66528 and 52920 computed by euclid_gcd and
\* binary_gcd is 72.
C20_ExampleIs72 ==
    (/\ func \in PlainGcdFuncs
     /\ pc = "done"
     /\ args = <<ExampleA, ExampleB>>)
    => result = 72

\* C20 as amended: euclid_gcd and binary_gcd agree with the reference GCD on
\* all a, b >= 0, and the GCD of 66528 and 52920 they compute is 1512.
C20_ExampleIs1512 ==
    (/\ func \in PlainGcdFuncs
     /\ pc = "done"
     /\ args[1] >= 0
     /\ args[2] >= 0)
    => /\ outcome = "value"
       /\ result = math_gcd(args[1], args[2])
       /\ (args = <<ExampleA, ExampleB>> => result = 1512)

C20_Witness ==
    /\ func \in PlainGcdFuncs
    /\ pc = "done"
    /\ args = <<ExampleA, ExampleB>>
    /\ outcome = "value"
    /\ result = 1512

----------------------------------------------------------------------------
\* C21: in sict_mi_a_odd, for every odd a > 1 and n > 1 with gcd(a, n) = 1,
\* once n1 = sict_mi(n mod a, a) has returned, n * n1 - 1 is divisible by a
\* with no remainder, and k = (n * n1 - 1) / a satisfies 0 < k < n and
\* n * n1 - k * a = 1.
C21_BezoutQuotient ==
    (/\ func = "sict_mi_a_odd"
     /\ pc = "L405"
     /\ args[1] > 1
     /\ args[1] % 2 # 0
     /\ args[2] > 1
     /\ math_gcd(args[1], args[2]) = 1)
    => LET k == (args[2] * ret - 1) \div args[1]
       IN /\ (args[2] * ret - 1) % args[1] = 0
          /\ 0 < k
          /\ k < args[2]
          /\ args[2] * ret - k * args[1] = 1

C21_Witness ==
    /\ func = "sict_mi_a_odd"
    /\ pc = "L405"
    /\ args[2] > args[1]
    /\ ret > 1
    /\ (args[2] * ret - 1) \div args[1] > 1
    /\ args[2] * ret - ((args[2] * ret - 1) \div args[1]) * args[1] = 1

----------------------------------------------------------------------------
\* C22: for every odd p and 0 <= a <= p with gcd(a, p) = 1, sict_mi (t3
\* doubled in each round, then div2l_mod) and sict_mi2 (t4 halved in each
\* round) go through the same (u, v) sequence, take the same swap decision
\* in every iteration (so their cofactors differ by the factor 2^i only), and
\* return the same value.
C22_SameTrace ==
    /\ (/\ pc = "mi_loop"
        /\ func # "maths_sict_mi"
        /\ math_gcd(a, p) = 1)
       => LET st2 == sict_mi2_loop(<<a, p, 0, 1>>, p, i)
          IN /\ <<u, v>> = <<st2[1], st2[2]>>
             /\ sict_mi_lt(u, v) = sict_mi2_lt(st2[1], st2[2])
             /\ (q - Pow2(i) * st2[3]) % p = 0
             /\ (r - Pow2(i) * st2[4]) % p = 0
    /\ (/\ pc = "mi2_loop"
        /\ math_gcd(a, p) = 1)
       => LET st == sict_mi_loop(<<a, p, 0, 1>>, p, i)
          IN /\ <<u, v>> = <<st[1], st[2]>>
             /\ sict_mi2_lt(u, v) = sict_mi_lt(st[1], st[2])
    /\ (/\ pc = "done"
        /\ func \in {"sict_mi", "sict_mi2"}
        /\ mi_precondition(args[1], args[2])
        /\ math_gcd(args[1], args[2]) = 1)
       => /\ outcome = "value"
          /\ sict_mi(args[1], args[2]) = Value(result)
          /\ sict_mi2(args[1], args[2]) = Value(result)

----------------------------------------------------------------------------
\* C23: for every valid input (p >= a >= 0, at least one odd), sict_gcd (the
\* signed formula), sict_gcd_readable (the selects) and si_gcd (the three
\* explicit branches) hold the same pair (u, v) after each of the
\* 2 * bitlen(p) iterations, and the t1 and t2 of the formula are never
\* negative.
C23_SameIterates ==
    /\ pc = "L208"
       => /\ <<u, v>> = sict_gcd_loop(<<a, p>>, i)
          /\ <<u, v>> = si_gcd_loop(<<a, p>>, i)
    /\ (pc = "gcd_loop" /\ func = "sict_gcd")
       => /\ <<u, v>> = si_gcd_loop(<<a, p>>, i)
          /\ gcd_in_range => sict_gcd_t1(u, v) >= 0 /\ sict_gcd_t2(u, v) >= 0
    /\ pc = "si_loop"
       => <<u, v>> = sict_gcd_loop(<<a, p>>, i)

C23_Witness ==
    /\ pc = "si_loop"
    /\ i = 2 * bit_length(p)
    /\ 1 < v
    /\ v < a
    /\ a < p
    /\ <<u, v>> = sict_gcd_loop(<<a, p>>, i)

----------------------------------------------------------------------------
\* C24: for every a >= b >= 0 with at least one odd, bin_gcd_fix13 returns
\* gcd(a, b) after exactly bitlen(a) outer iterations and bin_gcd_fix123
\* returns gcd(a, b) after exactly 3 * bitlen(a) iterations; at loop exit
\* one of a, b is 0 and the other is the gcd.
C24_FixedBudgetGcd ==
    /\ (pc = "bin_loop" /\ ~bin_in_range)
       => \/ u = 0 /\ v = math_gcd(p, a)
          \/ v = 0 /\ u = math_gcd(p, a)
    /\ (/\ func \in BinGcdFuncs
        /\ pc = "done"
        /\ args[1] >= args[2]
        /\ args[2] >= 0
        /\ (args[1] % 2 # 0 \/ args[2] % 2 # 0))
       => /\ outcome = "value"
          /\ result = math_gcd(args[1], args[2])
          /\ func = "bin_gcd_fix13" => i = bit_length(args[1])
          /\ func = "bin_gcd_fix123" => i = 3 * bit_length(args[1])

C24_Witness ==
    /\ func = "bin_gcd_fix123"
    /\ pc = "done"
    /\ outcome = "value"
    /\ i = 3 * bit_length(args[1])
    /\ 1 < result
    /\ result < args[2]
    /\ args[2] < args[1]

----------------------------------------------------------------------------
\* C25: in every state of the SICT-GCD / SICT-MI loop reached from a valid
\* input (at least one of p, a odd), u and v are never both even; the case
\* 'u even and v even', on which the arithmetic formula of sict_gcd and the
\* select-based round disagree, is therefore never taken.
C25_NeverBothEven ==
    /\ pc \in {"L208", "L210", "gcd_loop", "mi_loop"}
       => ~(u % 2 = 0 /\ v % 2 = 0)
    /\ pc = "L224"
       => sict_gcd_readable_body(u, v) = cond_swap(t1, t2, t2 < t1)
    /\ pc = "main"
       => \A x, y \in 0..MaxArg :
             (x <= y /\ y # 0 /\ x % 2 = 0 /\ y % 2 = 0)
             => sict_gcd_body(x, y) # sict_gcd_readable_body(x, y)

C25_Witness ==
    /\ pc = "L210"
    /\ i > 1
    /\ u > 0
    /\ u % 2 = 0
    /\ v % 2 # 0
    /\ sict_gcd_body(u, v) = sict_gcd_readable_body(u, v)

----------------------------------------------------------------------------
\* C26: in sict_mi with odd p >= 3 and 0 <= a <= p, 0 <= q < p and
\* 0 <= r < p hold initially and after every iteration, with the doubling
\* t3 * 2 % p as with the doubling add_mod(t3, t3, p) of maths/modinv.py,
\* whose result never equals p inside this loop; so sub_mod is only ever
\* called with arguments in [0, p).
C26_CofactorsInRange ==
    (pc = "mi_loop" /\ p >= 3)
    => /\ 0 <= q /\ q < p
       /\ 0 <= r /\ r < p
       /\ mi_in_range
          => LET s3 == maths_sict_mi_t3(u, v, q, r, p)
             IN /\ 0 <= s3 /\ s3 < p
                /\ add_mod(s3, s3, p) # p
                /\ add_mod(s3, s3, p) = (s3 * 2) % p
                /\ sict_mi_body(u, v, q, r, p) = maths_sict_mi_body(u, v, q, r, p)

C26_Witness ==
    /\ func = "maths_sict_mi"
    /\ pc = "mi_loop"
    /\ p >= 3
    /\ mi_in_range
    /\ 0 < q
    /\ q < r
    /\ 2 * maths_sict_mi_t3(u, v, q, r, p) > p

====
